---- MODULE Spec2Model ----
(***************************************************************************)
(* Release-note derivation pipeline of walle (src/walle/releasenote/        *)
(* generator.py) against the forge client interface                         *)
(* (src/walle/gitlab/client.py), and the parser of the rendered notes       *)
(* (parse_release_notes of src/walle/cli/batch.py).                         *)
(*                                                                          *)
(* Spec is one call of get_release_notes_by_tag; SpecText is the text       *)
(* functions (generate_release_notes, join_notes, parse_release_notes, the  *)
(* iid extraction) called on their own.  SpecTimed is the same call against *)
(* commit listings that carry creation times.  SpecPool is mr_from_commits  *)
(* with more candidate iids than pool threads, FairPool and DelayedPool add *)
(* its scheduling.  SpecCommand is the release and changelog commands and   *)
(* the process_project of batch around the call (src/walle/cli); SpecBatch  *)
(* is the collection and output of the results of batch.                    *)
(*                                                                          *)
(* Text is modelled as a sequence of symbols.  A symbol is one character,   *)
(* or a literal of the program that the code only ever treats as a whole    *)
(* (a section header, "See merge request ", "/release-note-none", ...).     *)
(* An optional value (None in the code) is a sequence of length <= 1.       *)
(***************************************************************************)
EXTENDS Integers, Sequences, FiniteSets, TLC

\* ------------------------------------------------------------------ bounds
\* Longest tag list the forge returns (tag k is named <<"v", k>>).
MaxTags == 3
\* Longest commit listing the forge returns in the fetch scenarios.
MaxCommits == 3
\* Longest list of items handed to join_notes.
MaxItems == 2
\* Longest list of merge requests handed to generate_release_notes.
MaxMrs == 2
\* Longest list of commits whose messages are scanned for the trailer.
MaxMessages == 2

\* --------------------------------------------------------------- constants
TITLE_CHANGES == "_Changes:_"
TITLE_BUG_FIX == "**Bug Fix:**"
TITLE_NEW_FEATURE == "_New Features:_"
TITLE_DOCUMENTATION == "Documentation:"
TITLE_OTHER == "Other:"
LABEL_RELEASE_NOTE_NONE == "release-note-none"
DEFAULT_WORKER_COUNT == 4
DEFAULT_KIND == TITLE_OTHER
\* Faulty variant of SORTED_KINDS: the order in which the titles are declared.
SORTED_KINDS_AsDeclared ==
  <<TITLE_CHANGES, TITLE_BUG_FIX, TITLE_NEW_FEATURE, TITLE_DOCUMENTATION, TITLE_OTHER>>

SORTED_KINDS ==
  <<TITLE_BUG_FIX, TITLE_NEW_FEATURE, TITLE_CHANGES, TITLE_DOCUMENTATION, TITLE_OTHER>>

NL == "\n"
SP == " "
\* Characters str.strip() removes and the regex class \s matches.
Whitespace == {SP, NL, "\t"}
Digits == <<"0", "1", "2", "3", "4", "5", "6", "7", "8", "9">>

\* ------------------------------------------------------------ text helpers
Min(a, b) == IF a <= b THEN a ELSE b

\* s[i:j] of Python for 1-based i and j inclusive
Slice(s, i, j) == IF i > j THEN <<>> ELSE SubSeq(s, i, j)

\* s.find(c) + 1 : position of the first c, 0 when there is none
IndexOf(s, c) ==
  IF \E i \in 1..Len(s) : s[i] = c
  THEN CHOOSE i \in 1..Len(s) : s[i] = c /\ \A j \in 1..(i - 1) : s[j] # c
  ELSE 0

\* s.startswith(p)
StartsWith(s, p) == Len(s) >= Len(p) /\ SubSeq(s, 1, Len(p)) = p

RECURSIVE Split(_, _)
\* s.split(c)
Split(s, c) ==
  LET p == IndexOf(s, c)
  IN IF p = 0 THEN <<s>>
     ELSE <<Slice(s, 1, p - 1)>> \o Split(Slice(s, p + 1, Len(s)), c)

\* c in s
Contains(s, c) == \E i \in 1..Len(s) : s[i] = c

\* s.strip()
Strip(s) ==
  LET keep == {i \in 1..Len(s) : s[i] \notin Whitespace}
  IN IF keep = {} THEN <<>>
     ELSE LET lo == CHOOSE i \in keep : \A j \in keep : i <= j
              hi == CHOOSE i \in keep : \A j \in keep : j <= i
          IN SubSeq(s, lo, hi)

RECURSIVE DecimalDigits(_)
\* str(n) for n >= 0
DecimalDigits(n) ==
  IF n < 10 THEN <<Digits[n + 1]>>
  ELSE DecimalDigits(n \div 10) \o <<Digits[(n % 10) + 1]>>

DigitValue(c) == (CHOOSE k \in 1..10 : Digits[k] = c) - 1

RECURSIVE ParseInt(_)
\* int(s) for a non-empty run of ASCII digits
ParseInt(s) ==
  IF s = <<>> THEN 0
  ELSE ParseInt(SubSeq(s, 1, Len(s) - 1)) * 10 + DigitValue(s[Len(s)])

IsDigit(c) == \E k \in 1..10 : Digits[k] = c

RECURSIVE JoinWith(_, _)
\* sep.join(parts)
JoinWith(sep, parts) ==
  IF parts = <<>> THEN <<>>
  ELSE IF Len(parts) = 1 THEN parts[1]
  ELSE parts[1] \o sep \o JoinWith(sep, Tail(parts))

RECURSIVE RegexAt(_, _, _, _)
\* Whether the pattern pat, from its element k on, matches s at position pos.
\* An element is [set, mode]: one symbol of set ("one"), at most one ("opt"),
\* or any number ("star").
RegexAt(s, pos, pat, k) ==
  IF k > Len(pat) THEN TRUE
  ELSE LET el == pat[k]
           hit == pos <= Len(s) /\ s[pos] \in el.set
       IN CASE el.mode = "one" -> hit /\ RegexAt(s, pos + 1, pat, k + 1)
            [] el.mode = "opt" ->
                 (hit /\ RegexAt(s, pos + 1, pat, k + 1)) \/ RegexAt(s, pos, pat, k + 1)
            [] el.mode = "star" ->
                 (hit /\ RegexAt(s, pos + 1, pat, k)) \/ RegexAt(s, pos, pat, k + 1)

\* pattern.search(s)
RegexSearch(s, pat) == \E i \in 1..Len(s) : RegexAt(s, i, pat, 1)

\* ------------------------------------------------------- exclusion filter
\* three backticks, as one symbol
FENCE == "<fence>"
\* release-note in any case, as one symbol per spelling
ReleaseNoteWords == {"release-note", "RELEASE-NOTE", "Release-Note"}
\* none, n/a or na in any case, as one symbol per spelling
NoneWords == {"none", "NONE", "None", "n/a", "N/A", "na", "NA"}
RELEASE_NOTE_NONE_TAG == "/release-note-none"
\* the single and the double quote character
QUOTES == {"squote", "dquote"}

\* First pattern of NOTE_EXCLUSION_FILTERS (case-insensitive): an opening fence
\* and release-note, an optional s, whitespace, an optional quote, an optional
\* none / n/a / na, an optional quote, whitespace, a closing fence.
FencedNoneRe ==
  << [set |-> {FENCE}, mode |-> "one"],
     [set |-> ReleaseNoteWords, mode |-> "one"],
     [set |-> {"s", "S"}, mode |-> "opt"],
     [set |-> Whitespace, mode |-> "star"],
     [set |-> QUOTES, mode |-> "opt"],
     [set |-> NoneWords, mode |-> "opt"],
     [set |-> QUOTES, mode |-> "opt"],
     [set |-> Whitespace, mode |-> "star"],
     [set |-> {FENCE}, mode |-> "one"] >>

\* /release-note-none
TagNoneRe == << [set |-> {RELEASE_NOTE_NONE_TAG}, mode |-> "one"] >>

NOTE_EXCLUSION_FILTERS == <<FencedNoneRe, TagNoneRe>>

\* Faulty variant of matches_exclude_filter: only the first pattern is tried.
matches_exclude_filter_FirstOnly(msg) == RegexSearch(msg, NOTE_EXCLUSION_FILTERS[1])

\* matches_exclude_filter: some pattern of NOTE_EXCLUSION_FILTERS is found in msg
matches_exclude_filter(msg) ==
  \E f \in 1..Len(NOTE_EXCLUSION_FILTERS) : RegexSearch(msg, NOTE_EXCLUSION_FILTERS[f])

is_in_array(item, array) == \E i \in 1..Len(array) : array[i] = item

\* Faulty variant of condition: the label is not looked at.
condition_NoLabels(mr) == ~matches_exclude_filter(mr.description)

\* condition(mr) of get_release_notes_by_tag
condition(mr) ==
  ~(matches_exclude_filter(mr.description)
      \/ is_in_array(LABEL_RELEASE_NOTE_NONE, mr.labels))

\* ----------------------------------------------------------- classifier
FEAT == <<"f", "e", "a", "t">>
FIX == <<"f", "i", "x">>
REFACTOR == <<"r", "e", "f", "a", "c", "t", "o", "r">>
DOCS == <<"d", "o", "c", "s">>

\* Faulty variant of KINDS: docs is not a key.
KINDS_NoDocs(tag) ==
  CASE tag = FEAT -> TITLE_NEW_FEATURE
    [] tag = FIX -> TITLE_BUG_FIX
    [] tag = REFACTOR -> TITLE_CHANGES
    [] OTHER -> DEFAULT_KIND

\* KINDS.get(tag, DEFAULT_KIND)
KINDS(tag) ==
  CASE tag = FEAT -> TITLE_NEW_FEATURE
    [] tag = FIX -> TITLE_BUG_FIX
    [] tag = REFACTOR -> TITLE_CHANGES
    [] tag = DOCS -> TITLE_DOCUMENTATION
    [] OTHER -> DEFAULT_KIND

\* Faulty variant of TAG_MATCHER_RE: the second group is always empty.
TAG_MATCHER_RE_NoScope(tag) ==
  LET p == IndexOf(tag, "(")
      n == Len(tag)
      e == IF n > 0 /\ tag[n] = NL THEN n - 1 ELSE n
  IN IF /\ p >= 2
        /\ \A i \in 1..(p - 1) : tag[i] # SP
        /\ e > p
        /\ tag[e] = ")"
        /\ \A i \in (p + 1)..(e - 1) : tag[i] # NL
     THEN <<Slice(tag, 1, p - 1), <<>> >>
     ELSE <<>>

\* TAG_MATCHER_RE.match(tag): the two groups, or <<>> when there is no match.
\* Group 1 is a non-empty run without space or opening parenthesis, so it ends
\* at the first opening parenthesis; group 2 is everything up to the closing
\* parenthesis that ends the tag.  The dot matches no newline, and the dollar
\* also matches before one final newline.
TAG_MATCHER_RE(tag) ==
  LET p == IndexOf(tag, "(")
      n == Len(tag)
      e == IF n > 0 /\ tag[n] = NL THEN n - 1 ELSE n
  IN IF /\ p >= 2
        /\ \A i \in 1..(p - 1) : tag[i] # SP
        /\ e > p
        /\ tag[e] = ")"
        /\ \A i \in (p + 1)..(e - 1) : tag[i] # NL
     THEN <<Slice(tag, 1, p - 1), Slice(tag, p + 1, e - 1)>>
     ELSE <<>>

\* Faulty variant of Classify: a space in the tag changes nothing.
Classify_NoProseGuard(item) ==
  LET c == IndexOf(item, ":")
      parts == IF c = 0 THEN <<<<>>, item>>
               ELSE <<Slice(item, 1, c - 1), Slice(item, c + 1, Len(item))>>
      tag0 == Strip(parts[1])
      summary0 == Strip(parts[2])
      m == IF Contains(tag0, "(") THEN TAG_MATCHER_RE(tag0) ELSE <<>>
      tag == IF m # <<>> THEN m[1] ELSE tag0
      summary1 == IF m # <<>> /\ m[2] # <<>> /\ m[2] # <<"*">>
                  THEN m[2] \o <<":", SP>> \o summary0
                  ELSE summary0
  IN [kind |-> KINDS(tag), summary |-> summary1]

\* One pass of the loop body of join_notes: the category and the summary of item.
Classify(item) ==
  LET c == IndexOf(item, ":")
      parts == IF c = 0 THEN <<<<>>, item>>
               ELSE <<Slice(item, 1, c - 1), Slice(item, c + 1, Len(item))>>
      tag0 == Strip(parts[1])
      summary0 == Strip(parts[2])
      m == IF Contains(tag0, "(") THEN TAG_MATCHER_RE(tag0) ELSE <<>>
      tag == IF m # <<>> THEN m[1] ELSE tag0
      summary1 == IF m # <<>> /\ m[2] # <<>> /\ m[2] # <<"*">>
                  THEN m[2] \o <<":", SP>> \o summary0
                  ELSE summary0
      kind == KINDS(tag)
      summary == IF tag # <<>> /\ Contains(tag, SP) THEN item ELSE summary1
  IN [kind |-> kind, summary |-> summary]

RECURSIVE SummariesOf(_, _)
\* releases[kind] after the loop: the summaries of the items of that kind, in order
SummariesOf(items, kind) ==
  IF items = <<>> THEN <<>>
  ELSE LET c == Classify(Head(items))
       IN (IF c.kind = kind THEN <<c.summary>> ELSE <<>>) \o SummariesOf(Tail(items), kind)

\* section of join_notes: the header, a newline, a dash and a space, then the
\* summaries, each prefixed by a dash and a space and joined by newlines, then
\* a newline.
Section(kind, items_list) ==
  <<kind, NL, "-", SP>>
    \o JoinWith(<<NL>>, [i \in 1..Len(items_list) |-> <<"-", SP>> \o items_list[i]])
    \o <<NL>>

RECURSIVE SectionsFrom(_, _)
SectionsFrom(items, k) ==
  IF k > Len(SORTED_KINDS) THEN <<>>
  ELSE LET l == SummariesOf(items, SORTED_KINDS[k])
       IN (IF l # <<>> THEN <<Section(SORTED_KINDS[k], l)>> ELSE <<>>)
            \o SectionsFrom(items, k + 1)

join_notes(items) == JoinWith(<<NL>>, SectionsFrom(items, 1))

\* title of generate_release_notes: the MR title, then its iid linked to its
\* web_url in parentheses, then the author's username after an at sign.
TitleLine(mr) ==
  mr.title \o <<SP, "(", "[", "!">> \o DecimalDigits(mr.iid) \o <<"]", "(">>
    \o mr.web_url \o <<")", ")", SP, "@">> \o mr.author.username

RECURSIVE Titles(_)
Titles(mrs) ==
  IF mrs = <<>> THEN <<>>
  ELSE (IF condition(Head(mrs)) THEN <<TitleLine(Head(mrs))>> ELSE <<>>) \o Titles(Tail(mrs))

\* generate_release_notes(mrs, condition) with the condition of get_release_notes_by_tag
generate_release_notes(mrs) == join_notes(Titles(mrs))

\* ---------------------------------------------------------- commit -> MR
SEE_MERGE_REQUEST == "See merge request "

\* Faulty variant of mr_num_for_commit_from_message: the trailer must end the
\* message, a final newline is not allowed after it.
mr_num_for_commit_from_message_Exact(commit_message) ==
  LET s == commit_message
      e == Len(s)
      hits == {b \in 1..e :
                 /\ s[b] = "!"
                 /\ b < e
                 /\ \A j \in (b + 1)..e : IsDigit(s[j])
                 /\ \E i \in 1..(b - 4) :
                      /\ s[i] = NL /\ s[i + 1] = NL /\ s[i + 2] = SEE_MERGE_REQUEST
                      /\ \A j \in (i + 3)..(b - 1) : s[j] # NL}
  IN IF hits = {} THEN 0
     ELSE LET b == CHOOSE b \in hits : TRUE IN ParseInt(Slice(s, b + 1, e))

\* The iid of the trailer, or 0: two newlines, See merge request, at least one
\* symbol other than a newline, an exclamation mark and a run of digits that
\* ends the message (the dollar also matches before one final newline).
mr_num_for_commit_from_message(commit_message) ==
  LET s == commit_message
      n == Len(s)
      e == IF n > 0 /\ s[n] = NL THEN n - 1 ELSE n
      hits == {b \in 1..e :
                 /\ s[b] = "!"
                 /\ b < e
                 /\ \A j \in (b + 1)..e : IsDigit(s[j])
                 /\ \E i \in 1..(b - 4) :
                      /\ s[i] = NL /\ s[i + 1] = NL /\ s[i + 2] = SEE_MERGE_REQUEST
                      /\ \A j \in (i + 3)..(b - 1) : s[j] # NL}
  IN IF hits = {} THEN 0
     ELSE LET b == CHOOSE b \in hits : TRUE IN ParseInt(Slice(s, b + 1, e))

\* ------------------------------------------------- batch: parse_release_notes
\* categories of parse_release_notes, in the order the dict is iterated.  A
\* header is one symbol, so a line starts with a header when its first symbol
\* is that header.
categories ==
  << [category_header |-> "**Bug Fix:**", category_key |-> "bug_fixes"],
     [category_header |-> "_New Features:_", category_key |-> "new_features"],
     [category_header |-> "_Changes:_", category_key |-> "changes"],
     [category_header |-> "Documentation:", category_key |-> "documentation"],
     [category_header |-> "Other:", category_key |-> "other"] >>

CategoryKeys == {categories[k].category_key : k \in 1..Len(categories)}

\* found_category of parse_release_notes: the key of the first header the line
\* starts with, <<>> (None) when it starts with none
found_category(line) ==
  LET hits == {k \in 1..Len(categories) :
                 StartsWith(line, <<categories[k].category_header>>)}
  IN IF hits = {} THEN <<>>
     ELSE <<categories[CHOOSE k \in hits : \A j \in hits : k <= j].category_key>>

\* the entry appended for a list line: the project name between double
\* asterisks, a colon, a space, and the line without its dash, stripped
ProjectItem(project_name, line) ==
  <<"**">> \o project_name \o <<"**", ":", SP>> \o Strip(Tail(line))

RECURSIVE ParseLines(_, _, _, _)
\* the loop of parse_release_notes over the lines that remain
ParseLines(lines, project_name, current_category, result) ==
  IF lines = <<>> THEN result
  ELSE LET line == Strip(Head(lines))
           found == found_category(line)
       IN IF line = <<>>
          THEN ParseLines(Tail(lines), project_name, current_category, result)
          ELSE IF found # <<>>
          THEN ParseLines(Tail(lines), project_name, found, result)
          ELSE IF line[1] = "-" /\ current_category # <<>>
          THEN ParseLines(Tail(lines), project_name, current_category,
                          [result EXCEPT ![current_category[1]] =
                             Append(@, ProjectItem(project_name, line))])
          ELSE ParseLines(Tail(lines), project_name, current_category, result)

\* parse_release_notes: the defaultdict read at every category key
parse_release_notes(release_notes, project_name) ==
  ParseLines(Split(release_notes, NL), project_name, <<>>,
             [k \in CategoryKeys |-> <<>>])

\* ------------------------------------------------------------ forge data
\* A tag as list_tags returns it; tag k was created at time k.
Tag(k) == [name |-> <<"v", k>>, commit |-> [created_at |-> k]]

\* list_tags results: tag names are unique within a project, the order is the
\* forge's and is not assumed sorted.
TagLists ==
  LET idx == UNION {[1..n -> 1..MaxTags] : n \in 0..MaxTags}
  IN {[i \in DOMAIN f |-> Tag(f[i])] :
        f \in {g \in idx : \A i, j \in DOMAIN g : i # j => g[i] # g[j]}}

\* The since argument: <<>> is None or "", which the code treats alike.
SinceTag == <<"v", 1>>
SinceSha == <<"sha", 1>>
SinceTokens == {<<>>, SinceTag, SinceSha}

\* created_at of the commit get_commit returns: later than every tag.
CommitCreatedAt == MaxTags + 1

\* Commit messages of the forge.
MsgPlain == <<"t">>
MsgMr10 == <<"t", NL, NL, SEE_MERGE_REQUEST, "g", "!", "1", "0">>
MsgMr11 == <<"t", NL, NL, SEE_MERGE_REQUEST, "g", "!", "1", "1">>
MsgMr12 == <<"t", NL, NL, SEE_MERGE_REQUEST, "g", "!", "1", "2">>
Messages == {MsgPlain, MsgMr10, MsgMr11, MsgMr12}
Commit(m) == [message |-> m]

\* Merge requests of the forge, as get_merge_request returns them.
Mr10 ==
  [iid |-> 10, title |-> FEAT \o <<":", SP, "a">>, description |-> <<>>,
   web_url |-> <<"https", ":", "//h/10">>, labels |-> <<LABEL_RELEASE_NOTE_NONE>>,
   author |-> [username |-> <<"u">>]]
Mr11 ==
  [iid |-> 11, title |-> FIX \o <<":", SP, "b">>, description |-> <<>>,
   web_url |-> <<"https", ":", "//h/11">>, labels |-> <<>>,
   author |-> [username |-> <<"u">>]]
Mr12 ==
  [iid |-> 12, title |-> FIX \o <<"(", "a", "p", "i", ")", ":", SP, "c">>,
   description |-> <<>>, web_url |-> <<"https", ":", "//h/12">>, labels |-> <<>>,
   author |-> [username |-> <<"u">>]]
MrDb == (10 :> Mr10) @@ (11 :> Mr11) @@ (12 :> Mr12)

\* list_commits results.
CommitLists ==
  UNION {[1..n -> {Commit(m) : m \in Messages}] : n \in 0..MaxCommits}

\* The listings every range is resolved against: none, one commit, two commits.
ShortCommitLists ==
  {<<>>, <<Commit(MsgMr11)>>, <<Commit(MsgPlain), Commit(MsgMr11)>>}

\* The calls every listing is fetched under: the target is the only tag (found,
\* no lower bound), the newest of two tags (found, lower bound), not a tag (not
\* found, lower bound), and the newest of two tags with a since token that
\* names no tag.
FetchCalls ==
  {[tags |-> <<Tag(1)>>, tag_name |-> Tag(1).name, since |-> <<>>],
   [tags |-> <<Tag(2), Tag(1)>>, tag_name |-> Tag(2).name, since |-> <<>>],
   [tags |-> <<Tag(1)>>, tag_name |-> Tag(2).name, since |-> <<>>],
   [tags |-> <<Tag(2), Tag(1)>>, tag_name |-> Tag(2).name, since |-> SinceSha]}

\* ------------------------------------------------------------ text inputs
\* Items handed to join_notes: one per conventional type, an unknown type, an
\* upper-case type, an empty type, no colon, the three scope forms, a space
\* before the colon outside and inside a scope, a second colon, and padding.
ItemFeat == FEAT \o <<":", SP, "a">>
ItemFix == FIX \o <<":", SP, "b">>
ItemRefactor == REFACTOR \o <<":", SP, "c">>
ItemDocs == DOCS \o <<":", SP, "d">>
ItemChore == <<"c", "h", "o", "r", "e", ":", SP, "b", "u", "m", "p", SP, "d", "e", "p", "s">>
ItemUpper == <<"F", "e", "a", "t", ":", SP, "e">>
ItemEmptyType == <<":", SP, "f">>
ItemNoColon == <<"n", "o", SP, "c", "o", "l", "o", "n", SP, "h", "e", "r", "e">>
ItemScope == FEAT \o <<"(", "a", "p", "i", ")", ":", SP, "a", "d", "d", SP, "X">>
ItemStarScope == FIX \o <<"(", "*", ")", ":", SP, "g">>
ItemEmptyScope == DOCS \o <<"(", ")", ":", SP, "h">>
ItemProse == <<"m", "y", SP, "n", "o", "t", "e", ":", SP, "i">>
ItemSpaceInScope ==
  FEAT \o <<"(", "m", "y", SP, "s", "c", "o", "p", "e", ")", ":", SP, "x">>
ItemProseScope == <<"m", "y", SP>> \o FIX \o <<"(", "a", "p", "i", ")", ":", SP, "j">>
ItemTwoColons == FIX \o <<":", "k", ":", SP, "l">>
ItemPadded == REFACTOR \o <<SP, ":", SP, SP, "m", SP>>
ItemPool ==
  {ItemFeat, ItemFix, ItemRefactor, ItemDocs, ItemChore, ItemUpper, ItemEmptyType,
   ItemNoColon, ItemScope, ItemStarScope, ItemEmptyScope, ItemProse,
   ItemSpaceInScope, ItemProseScope, ItemTwoColons, ItemPadded}
ItemLists == UNION {[1..n -> ItemPool] : n \in 0..MaxItems}

\* project_name of parse_release_notes
ProjectName == <<"p">>

\* Descriptions of merge requests: none, plain text, the tag alone and inside
\* text, a fenced release-note block holding none, one holding a note, an
\* upper-case release-notes block with a quoted N/A, and an empty one.
FilterDescriptions ==
  << <<>>,
     <<"x">>,
     <<RELEASE_NOTE_NONE_TAG>>,
     <<"x", SP, RELEASE_NOTE_NONE_TAG, NL, "y">>,
     <<FENCE, "release-note", NL, "none", NL, FENCE>>,
     <<FENCE, "release-note", NL, "x", NL, FENCE>>,
     <<"x", NL, FENCE, "RELEASE-NOTE", "S", SP, "dquote", "N/A", "dquote", FENCE>>,
     <<FENCE, "release-note", FENCE, SP, "y">> >>
\* Label lists: none, the label among others, a label that only resembles it.
FilterLabels ==
  << <<>>, <<"bug", LABEL_RELEASE_NOTE_NONE>>, <<"release-note">> >>
\* The merge request with description d and label list l, as get_merge_request
\* returns it; its iid tells the two.
FilterMr(d, l) ==
  [iid |-> d * 10 + l, title |-> FIX \o <<":", SP, "b">>,
   description |-> FilterDescriptions[d],
   web_url |-> <<"https", ":", "//h/">> \o DecimalDigits(d * 10 + l),
   labels |-> FilterLabels[l], author |-> [username |-> <<"u">>]]
FilterMrs ==
  {FilterMr(d, l) : d \in 1..Len(FilterDescriptions), l \in 1..Len(FilterLabels)}
MrLists == UNION {[1..n -> FilterMrs] : n \in 0..MaxMrs}

\* Commit messages scanned for the trailer.
MsgTrailer == <<"t", NL, NL, SEE_MERGE_REQUEST, "f", "o", "o", "!", "4", "2">>
MsgTrailerNewline == MsgTrailer \o <<NL>>
MsgTrailerTwoNewlines == MsgTrailer \o <<NL, NL>>
MsgTrailerNotLast == MsgTrailer \o <<NL, "x">>
MsgTrailerThenText == MsgTrailer \o <<"x">>
MsgNoDigits == <<"t", NL, NL, SEE_MERGE_REQUEST, "f", "o", "o", "!">>
MsgNoBlankLine == <<"t", NL, SEE_MERGE_REQUEST, "f", "o", "o", "!", "7">>
MsgZero == <<"t", NL, NL, SEE_MERGE_REQUEST, "f", "o", "o", "!", "0">>
MsgNoText == <<"t", NL, NL, SEE_MERGE_REQUEST, "!", "7">>
MsgTextOverLines == <<"t", NL, NL, SEE_MERGE_REQUEST, "a", NL, "b", "!", "7">>
MsgTwoTrailers ==
  <<SEE_MERGE_REQUEST, "g", "!", "9", NL, NL, SEE_MERGE_REQUEST, "g", "/", "h", "!", "1", "2">>
MsgOnlyTrailer == <<NL, NL, SEE_MERGE_REQUEST, "g", "!", "5">>
MsgBangInText == <<"t", NL, NL, SEE_MERGE_REQUEST, "a", "!", "3", "!", "8">>
TrailerMessages ==
  {MsgPlain, MsgTrailer, MsgTrailerNewline, MsgTrailerTwoNewlines, MsgTrailerNotLast,
   MsgTrailerThenText, MsgNoDigits, MsgNoBlankLine, MsgZero, MsgNoText,
   MsgTextOverLines, MsgTwoTrailers, MsgOnlyTrailer, MsgBangInText}
MessageLists ==
  UNION {[1..n -> {Commit(m) : m \in TrailerMessages}] : n \in 0..MaxMessages}

\* ------------------------------------------------------------------ state
VARIABLES
  tags,          \* what list_tags returns
  tag_name,      \* argument: the target tag
  since,         \* argument: the since token
  listing,       \* what list_commits returns
  pc,            \* position in get_release_notes_by_tag
  tag_exists, since_at, until_at,   \* locals of range resolution
  commits,       \* local: the commits handed to mr_from_commits
  futures,       \* future_to_iid with each future's state and outcome
  mrs,           \* local of mr_from_commits: the collected merge requests
  ret,           \* the returned tuple, <<>> before the return
  calls,         \* the calls made so far and how each ended, in order
  items,         \* argument of join_notes
  release_notes, \* the markdown join_notes returned
  parsed,        \* what parse_release_notes returned
  iids,          \* mr_iids of mr_from_commits: the iids found in the messages
  project_cache, \* GitLabClient._project_cache: the projects whose handle is held
  command,       \* the command that runs the pipeline, none when it is called alone
  options,       \* the flags of the command
  mutations,     \* the mutating client calls made so far and how each ended
  cmd_result,    \* the return code of the command or the status of process_project
  projects,      \* batch: the projects of the config file, in file order
  results,       \* batch: the results, in the order the projects completed
  outputs        \* batch: the markdown files written or displayed

\* the state of the text functions called on their own
text_vars == <<items, release_notes, parsed, iids>>
\* the state of get_release_notes_by_tag apart from pc, commits and mrs
call_vars ==
  <<tags, tag_name, since, listing, tag_exists, since_at, until_at, futures, ret, calls>>

\* the state of a command around the pipeline
cmd_vars == <<command, options, mutations, cmd_result>>
\* the state of the batch command around process_project
batch_vars == <<projects, results, outputs>>

vars ==
  <<tags, tag_name, since, listing, pc, tag_exists, since_at, until_at,
    commits, futures, mrs, ret, calls, items,
    release_notes, parsed, iids, project_cache, cmd_vars, batch_vars>>

\* ------------------------------------------------------- range resolution
RECURSIVE ScanTarget(_, _, _)
\* lines 176-180: the first tag named tag_name, from index i on
ScanTarget(ts, name, i) ==
  IF i > Len(ts) THEN [tag_exists |-> FALSE, until_at |-> <<>>]
  ELSE IF ts[i].name = name
       THEN [tag_exists |-> TRUE, until_at |-> <<ts[i].commit.created_at>>]
       ELSE ScanTarget(ts, name, i + 1)

RECURSIVE ScanSince(_, _, _)
\* lines 184-190: created_at of the first tag named like the since token
ScanSince(ts, token, i) ==
  IF i > Len(ts) THEN <<>>
  ELSE IF ts[i].name = token THEN <<ts[i].commit.created_at>>
       ELSE ScanSince(ts, token, i + 1)

RECURSIVE AutoDetect(_, _, _, _)
\* lines 207-215: the loop over enumerate(tags) from index i on; r holds
\* tag_exists, since_at and until_at.  A tag named tag_name is recorded and the
\* loop continues; any other tag sets since_at and ends the loop.
AutoDetect(ts, name, i, r) ==
  IF i > Len(ts) THEN r
  ELSE IF ts[i].name = name
       THEN AutoDetect(ts, name, i + 1,
                       [r EXCEPT !.tag_exists = TRUE,
                                 !.until_at = <<ts[i].commit.created_at>>])
       ELSE [r EXCEPT !.since_at = <<ts[i].commit.created_at>>]

\* lines 167-169
NoRange == [tag_exists |-> FALSE, since_at |-> <<>>, until_at |-> <<>>]

\* Faulty variant of FallBack: auto-detection also runs after since resolved.
FallBack_Always(ts, name, r) == AutoDetect(ts, name, 1, r)

\* lines 205-215: auto-detection runs only while since_at is unset
FallBack(ts, name, r) == IF r.since_at = <<>> THEN AutoDetect(ts, name, 1, r) ELSE r

\* The error of the returned tuple: None, the exception of line 164, or the
\* exception a call raised.
NoError == <<>>
NoTagsError == <<"No tags found in project">>
RaisedBy(call) == <<"raised by", call>>

\* The returned tuple.
Result(te, notes, err) == <<[tag_exists |-> te, release_notes |-> notes, error |-> err]>>

\* Faulty variant of NoTags: an empty list is let through.
NoTags_Never(ts) == FALSE

\* line 163: if not tags
NoTags(ts) == ts = <<>>

\* Faulty variant of Caught: the tag_exists found so far is returned.
Caught_KeepsTagExists(e) == Result(tag_exists, <<>>, e)

\* lines 241-243: the handler of every exception raised inside the try block
Caught(e) == Result(FALSE, <<>>, e)

\* ---------------------------------------------------------- mr_from_commits
RECURSIVE MrIids(_)
\* lines 263-267: the iids of the commits whose message carries the trailer
MrIids(cs) ==
  IF cs = <<>> THEN <<>>
  ELSE LET iid == mr_num_for_commit_from_message(Head(cs).message)
       IN (IF iid > 0 THEN <<iid>> ELSE <<>>) \o MrIids(Tail(cs))

\* Faulty variant of MaxWorkers: one thread per iid, whatever the cap.
MaxWorkers_OnePerIid(mr_iids) == Len(mr_iids)

\* line 274
MaxWorkers(mr_iids) == Min(DEFAULT_WORKER_COUNT, Len(mr_iids))

\* Faulty variant of Submit: an iid that was already submitted is skipped.
Submit_Distinct(mr_iids) ==
  LET first == {i \in 1..Len(mr_iids) : \A j \in 1..(i - 1) : mr_iids[j] # mr_iids[i]}
      nth(k) == CHOOSE i \in first : Cardinality({j \in first : j < i}) = k - 1
  IN [k \in 1..Cardinality(first) |->
        [iid |-> mr_iids[nth(k)], state |-> "pending", outcome |-> "none",
         yielded |-> FALSE]]

\* lines 278-281: one future per iid, in submission order
Submit(mr_iids) ==
  [i \in 1..Len(mr_iids) |->
     [iid |-> mr_iids[i], state |-> "pending", outcome |-> "none", yielded |-> FALSE]]

\* Faulty variant of Collected: a failed fetch discards what was collected.
Collected_DropsOnFailure(list, future) ==
  IF future.outcome = "mr" THEN Append(list, MrDb[future.iid]) ELSE <<>>

\* lines 286-293: the body of the as_completed loop for one finished future
Collected(list, future) ==
  IF future.outcome = "mr" THEN Append(list, MrDb[future.iid]) ELSE list

Running == {i \in 1..Len(futures) : futures[i].state = "running"}
Pending == {i \in 1..Len(futures) : futures[i].state = "pending"}

\* ------------------------------------------------------ the client's cache
\* The project every call of the pipeline is made for.
Project == "g/p"

\* Faulty variant of GetProject: the handle is fetched and not kept.
GetProject_NotKept(cache, project) == cache

\* client.py lines 37-41: the handle is fetched and kept unless it is held
GetProject(cache, project) == cache \cup {project}

\* Every method of the client calls _get_project first, inside its try block:
\* a call that returned a result has passed it, a call that failed (it returns
\* None, False or [] from its except block) failed in it or after it.
ClientCall(cache, succeeded) ==
  IF succeeded THEN {GetProject(cache, Project)}
  ELSE {cache, GetProject(cache, Project)}

\* The flags of a command, none set.
NoOptions ==
  [dry_run |-> FALSE, markdown_only |-> FALSE, tag_only |-> FALSE, merge_markdown |-> FALSE]

\* No command around the pipeline, and no batch.
NoCommand ==
  /\ command = "none"
  /\ options = NoOptions
  /\ mutations = <<>>
  /\ cmd_result = <<>>
  /\ projects = <<>>
  /\ results = <<>>
  /\ outputs = <<>>

\* ------------------------------------------------------------------- Init
\* Every tag list, target and since token, against short commit listings.
InitRange ==
  /\ tags \in TagLists
  /\ tag_name \in {Tag(k).name : k \in 1..MaxTags}
  /\ since \in SinceTokens
  /\ listing \in ShortCommitLists

\* Every commit listing, against the calls of FetchCalls.
InitFetch ==
  /\ \E c \in FetchCalls : tags = c.tags /\ tag_name = c.tag_name /\ since = c.since
  /\ listing \in CommitLists

Init ==
  /\ InitRange \/ InitFetch
  /\ pc = "list_tags"
  /\ tag_exists = FALSE
  /\ since_at = <<>>
  /\ until_at = <<>>
  /\ commits = <<>>
  /\ futures = <<>>
  /\ mrs = <<>>
  /\ ret = <<>>
  /\ calls = <<>>
  /\ items = <<>>
  /\ release_notes = <<>>
  /\ parsed = <<>>
  /\ iids = <<>>
  /\ project_cache = {}
  /\ NoCommand

\* ---------------------------------------------------------------- actions
\* line 162 raises: caught at line 241
ListTagsRaises ==
  /\ pc = "list_tags"
  /\ calls' = Append(calls, <<"list_tags", "raises">>)
  /\ ret' = Caught(RaisedBy("list_tags"))
  /\ pc' = "done"
  /\ project_cache' \in ClientCall(project_cache, FALSE)
  /\ UNCHANGED <<text_vars, cmd_vars, batch_vars, tags, tag_name, since, listing, tag_exists, since_at, until_at,
                 commits, futures, mrs>>

\* lines 162-190 and, when the since token is absent or names a tag, 205-215
ListTags ==
  /\ pc = "list_tags"
  /\ calls' = Append(calls, <<"list_tags", "returns">>)
  /\ IF NoTags(tags)
     THEN /\ ret' = Result(FALSE, <<>>, NoTagsError)
          /\ pc' = "done"
          /\ UNCHANGED <<tag_exists, since_at, until_at>>
     ELSE LET t == IF since # <<>> THEN ScanTarget(tags, tag_name, 1)
                   ELSE [tag_exists |-> FALSE, until_at |-> <<>>]
              s == IF since # <<>> THEN ScanSince(tags, since, 1) ELSE <<>>
              r0 == [tag_exists |-> t.tag_exists, since_at |-> s, until_at |-> t.until_at]
              lookup == since # <<>> /\ s = <<>>
              r == IF lookup THEN r0 ELSE FallBack(tags, tag_name, r0)
          IN /\ tag_exists' = r.tag_exists
             /\ since_at' = r.since_at
             /\ until_at' = r.until_at
             /\ pc' = IF lookup THEN "get_commit" ELSE "list_commits"
             /\ ret' = ret
  /\ project_cache' \in ClientCall(project_cache, tags # <<>>)
  /\ UNCHANGED <<text_vars, cmd_vars, batch_vars, tags, tag_name, since, listing, commits, futures, mrs>>

\* lines 193-215: the since token names no tag, so the commit is looked up
GetCommit ==
  /\ pc = "get_commit"
  /\ \E outcome \in {"commit", "absent", "raises"} :
       LET r0 == [tag_exists |-> tag_exists,
                  since_at |-> IF outcome = "commit" THEN <<CommitCreatedAt>> ELSE <<>>,
                  until_at |-> until_at]
           r == FallBack(tags, tag_name, r0)
       IN /\ calls' = Append(calls, <<"get_commit", outcome, since>>)
          /\ project_cache' \in ClientCall(project_cache, outcome = "commit")
          /\ tag_exists' = r.tag_exists
          /\ since_at' = r.since_at
          /\ until_at' = r.until_at
  /\ pc' = "list_commits"
  /\ UNCHANGED <<text_vars, cmd_vars, batch_vars, tags, tag_name, since, listing, commits,
                 futures, mrs, ret>>

\* line 218 raises: caught at line 241
ListCommitsRaises ==
  /\ pc = "list_commits"
  /\ calls' = Append(calls, <<"list_commits", "raises", since_at, until_at>>)
  /\ ret' = Caught(RaisedBy("list_commits"))
  /\ pc' = "done"
  /\ project_cache' \in ClientCall(project_cache, FALSE)
  /\ UNCHANGED <<text_vars, cmd_vars, batch_vars, tags, tag_name, since, listing, tag_exists, since_at, until_at,
                 commits, futures, mrs>>

\* lines 218-224
ListCommits ==
  /\ pc = "list_commits"
  /\ calls' = Append(calls, <<"list_commits", "returns", since_at, until_at>>)
  /\ IF listing = <<>>
     THEN /\ ret' = Result(tag_exists, <<>>, NoError)
          /\ pc' = "done"
          /\ commits' = commits
     ELSE /\ commits' = IF since_at # <<>> THEN Tail(listing) ELSE listing
          /\ pc' = "mr_from_commits"
          /\ ret' = ret
  /\ project_cache' \in ClientCall(project_cache, listing # <<>>)
  /\ UNCHANGED <<text_vars, cmd_vars, batch_vars, tags, tag_name, since, listing, tag_exists, since_at, until_at,
                 futures, mrs>>

\* lines 227, 259-281 raise (the pool cannot be created or a task submitted):
\* caught at line 241
MrFromCommitsRaises ==
  /\ pc = "mr_from_commits"
  /\ MrIids(commits) # <<>>
  /\ calls' = Append(calls, <<"mr_from_commits", "raises">>)
  /\ ret' = Caught(RaisedBy("mr_from_commits"))
  /\ pc' = "done"
  /\ UNCHANGED <<text_vars, cmd_vars, batch_vars, project_cache, tags, tag_name, since, listing, tag_exists, since_at, until_at,
                 commits, futures, mrs>>

\* lines 227, 259-281, and 238-239 when mr_from_commits returns at once
MrFromCommits ==
  /\ pc = "mr_from_commits"
  /\ IF MrIids(commits) = <<>>
     THEN /\ ret' = Result(tag_exists, generate_release_notes(<<>>), NoError)
          /\ pc' = "done"
          /\ futures' = futures
     ELSE /\ futures' = Submit(MrIids(commits))
          /\ pc' = "fetch"
          /\ ret' = ret
  /\ UNCHANGED <<text_vars, cmd_vars, batch_vars, project_cache, tags, tag_name, since, listing, tag_exists, since_at, until_at,
                 commits, mrs, calls>>

\* Faulty variant of WorkerStart: a task is taken only when no fetch is running.
WorkerStart_OneAtATime ==
  /\ pc = "fetch"
  /\ Pending # {}
  /\ Running = {}
  /\ LET i == CHOOSE i \in Pending : \A j \in Pending : i <= j
     IN /\ futures' = [futures EXCEPT ![i].state = "running"]
        /\ calls' = Append(calls, <<"get_merge_request", "started", futures[i].iid>>)
  /\ UNCHANGED <<text_vars, cmd_vars, batch_vars, project_cache, tags, tag_name, since, listing, pc, tag_exists, since_at, until_at,
                 commits, mrs, ret>>

\* A pool thread takes the oldest queued task and calls get_merge_request.
\* The pool has the threads of line 274; one future was submitted per element
\* of mr_iids (lines 278-281).
WorkerStart ==
  /\ pc = "fetch"
  /\ Pending # {}
  /\ Cardinality(Running) < MaxWorkers(futures)
  /\ LET i == CHOOSE i \in Pending : \A j \in Pending : i <= j
     IN /\ futures' = [futures EXCEPT ![i].state = "running"]
        /\ calls' = Append(calls, <<"get_merge_request", "started", futures[i].iid>>)
  /\ UNCHANGED <<text_vars, cmd_vars, batch_vars, project_cache, tags, tag_name, since, listing, pc, tag_exists, since_at, until_at,
                 commits, mrs, ret>>

\* get_merge_request returns the merge request, returns None (what the
\* GitLabClient does on any failure) or raises (any other client).
WorkerFinish(i) ==
  /\ pc = "fetch"
  /\ futures[i].state = "running"
  /\ \E outcome \in {"mr", "absent", "raises"} :
       /\ outcome = "mr" => futures[i].iid \in DOMAIN MrDb
       /\ futures' = [futures EXCEPT ![i].state = "done", ![i].outcome = outcome]
       /\ project_cache' \in ClientCall(project_cache, outcome = "mr")
  /\ UNCHANGED <<text_vars, cmd_vars, batch_vars, tags, tag_name, since, listing, pc, tag_exists, since_at, until_at,
                 commits, mrs, ret, calls>>

\* lines 284-293: as_completed yields a finished future
Collect(i) ==
  /\ pc = "fetch"
  /\ futures[i].state = "done"
  /\ ~futures[i].yielded
  /\ futures' = [futures EXCEPT ![i].yielded = TRUE]
  /\ mrs' = Collected(mrs, futures[i])
  /\ UNCHANGED <<text_vars, cmd_vars, batch_vars, project_cache, tags, tag_name, since, listing, pc, tag_exists, since_at, until_at,
                 commits, ret, calls>>

\* Faulty variant of Return: the loop ends after the first yielded future.
Return_AfterFirst ==
  /\ pc = "fetch"
  /\ \E i \in 1..Len(futures) : futures[i].yielded
  /\ ret' = Result(tag_exists, generate_release_notes(mrs), NoError)
  /\ pc' = "done"
  /\ UNCHANGED <<text_vars, cmd_vars, batch_vars, project_cache, tags, tag_name, since, listing, tag_exists, since_at, until_at,
                 commits, futures, mrs, calls>>

\* lines 295, 238-239: every future was yielded
Return ==
  /\ pc = "fetch"
  /\ \A i \in 1..Len(futures) : futures[i].yielded
  /\ ret' = Result(tag_exists, generate_release_notes(mrs), NoError)
  /\ pc' = "done"
  /\ UNCHANGED <<text_vars, cmd_vars, batch_vars, project_cache, tags, tag_name, since, listing, tag_exists, since_at, until_at,
                 commits, futures, mrs, calls>>

Next ==
  \/ ListTagsRaises
  \/ ListTags
  \/ GetCommit
  \/ ListCommitsRaises
  \/ ListCommits
  \/ MrFromCommitsRaises
  \/ MrFromCommits
  \/ WorkerStart
  \/ \E i \in 1..Len(futures) : WorkerFinish(i)
  \/ \E i \in 1..Len(futures) : Collect(i)
  \/ Return

Spec == Init /\ [][Next]_vars

\* ------------------------------------------- the text functions on their own
\* generate_release_notes, join_notes followed by parse_release_notes, and the
\* iid extraction of mr_from_commits, each called on its own with every input
\* of its pool.
InitText ==
  /\ tags = <<>>
  /\ tag_name = <<>>
  /\ since = <<>>
  /\ listing = <<>>
  /\ tag_exists = FALSE
  /\ since_at = <<>>
  /\ until_at = <<>>
  /\ futures = <<>>
  /\ ret = <<>>
  /\ calls = <<>>
  /\ release_notes = <<>>
  /\ parsed = <<>>
  /\ iids = <<>>
  /\ project_cache = {}
  /\ NoCommand
  /\ \/ pc = "generate_release_notes" /\ mrs \in MrLists /\ items = <<>> /\ commits = <<>>
     \/ pc = "join_notes" /\ items \in ItemLists /\ mrs = <<>> /\ commits = <<>>
     \/ pc = "mr_iids" /\ commits \in MessageLists /\ mrs = <<>> /\ items = <<>>

\* generator.py lines 134-142 with the condition of lines 230-236
GenerateReleaseNotes ==
  /\ pc = "generate_release_notes"
  /\ items' = Titles(mrs)
  /\ release_notes' = join_notes(Titles(mrs))
  /\ pc' = "generated"
  /\ UNCHANGED <<call_vars, project_cache, cmd_vars, batch_vars, commits, mrs, parsed, iids>>

\* generator.py lines 78-117
JoinNotes ==
  /\ pc = "join_notes"
  /\ release_notes' = join_notes(items)
  /\ pc' = "parse_release_notes"
  /\ UNCHANGED <<call_vars, project_cache, cmd_vars, batch_vars, commits, mrs, items, parsed, iids>>

\* batch.py line 194: the markdown is parsed for the project
ParseReleaseNotes ==
  /\ pc = "parse_release_notes"
  /\ parsed' = parse_release_notes(release_notes, ProjectName)
  /\ pc' = "parsed"
  /\ UNCHANGED <<call_vars, project_cache, cmd_vars, batch_vars, commits, mrs, items, release_notes, iids>>

\* generator.py lines 259-267
ExtractIids ==
  /\ pc = "mr_iids"
  /\ iids' = MrIids(commits)
  /\ pc' = "extracted"
  /\ UNCHANGED <<call_vars, project_cache, cmd_vars, batch_vars, commits, mrs, items, release_notes, parsed>>

NextText ==
  \/ GenerateReleaseNotes
  \/ JoinNotes
  \/ ParseReleaseNotes
  \/ ExtractIids

SpecText == InitText /\ [][NextText]_vars

\* ------------------------------------------------- the commands of the CLI
\* release, changelog and the process_project of batch: each validates its
\* options, makes a fresh client, runs the pipeline and acts on what it returns.
RELEASE == "release"
CHANGELOG == "changelog"
BATCH == "batch"

\* The flags each command takes.
OptionsOf(c) ==
  {o \in [dry_run : BOOLEAN, markdown_only : BOOLEAN, tag_only : BOOLEAN,
          merge_markdown : BOOLEAN] :
     /\ c # BATCH => ~o.merge_markdown
     /\ c = CHANGELOG => ~o.tag_only}

\* What a command ends with: the return code of release and changelog (and of
\* batch when it rejects its options), the status of process_project.
Code(n) == <<[code |-> n]>>
Status(st) == <<[status |-> st]>>
Exit(res) == [pc |-> "exit", result |-> res]
Goto(step) == [pc |-> step, result |-> <<>>]

\* release.py lines 26-28, batch.py lines 140-142
OptionsRejected(c, o) == c \in {RELEASE, BATCH} /\ o.markdown_only /\ o.tag_only

\* Faulty variant of release_after_tag: --tag-only is not looked at.
release_after_tag_IgnoresTagOnly(r, o) ==
  IF Strip(r.release_notes) # <<>> THEN Goto("upsert_release") ELSE Exit(Code(0))

\* release.py lines 85-100
release_after_tag(r, o) ==
  IF o.tag_only THEN Exit(Code(0))
  ELSE IF Strip(r.release_notes) # <<>> THEN Goto("upsert_release")
  ELSE Exit(Code(0))

\* release.py lines 41-76
release_after_notes(r, o) ==
  IF r.error # NoError THEN Exit(Code(1))
  ELSE IF Strip(r.release_notes) = <<>> /\ ~o.tag_only THEN Exit(Code(0))
  ELSE IF o.markdown_only THEN Goto("write_markdown")
  ELSE IF o.dry_run THEN Exit(Code(0))
  ELSE IF ~r.tag_exists THEN Goto("create_tag")
  ELSE release_after_tag(r, o)

\* batch.py lines 224-234
batch_after_tag(r, o) ==
  IF o.tag_only THEN Exit(Status("success")) ELSE Goto("upsert_release")

\* batch.py lines 186-218
batch_after_notes(r, o) ==
  IF r.error # NoError THEN Exit(Status("error"))
  ELSE IF Strip(r.release_notes) = <<>> THEN Exit(Status("empty"))
  ELSE IF o.markdown_only \/ o.merge_markdown THEN Exit(Status("success"))
  ELSE IF o.dry_run THEN Exit(Status("dry-run"))
  ELSE IF ~r.tag_exists THEN Goto("create_tag")
  ELSE batch_after_tag(r, o)

\* Faulty variant of changelog_after_notes: --markdown-only is not looked at.
changelog_after_notes_IgnoresMarkdownOnly(r, o) ==
  IF r.error # NoError THEN Exit(Code(1))
  ELSE IF Strip(r.release_notes) = <<>> THEN Exit(Code(0))
  ELSE Goto("get_file")

\* changelog.py lines 36-62
changelog_after_notes(r, o) ==
  IF r.error # NoError THEN Exit(Code(1))
  ELSE IF Strip(r.release_notes) = <<>> THEN Exit(Code(0))
  ELSE IF o.markdown_only THEN Goto("write_markdown")
  ELSE Goto("get_file")

\* Faulty variant of changelog_after: the merge request is opened before the
\* file is updated.
changelog_after_MergeRequestFirst(step) ==
  IF step = "create_branch" THEN Goto("create_merge_request")
  ELSE IF step = "create_merge_request" THEN Goto("update_file")
  ELSE Exit(Code(0))

\* changelog.py lines 86-121: what follows each mutation that succeeded
changelog_after(step) ==
  IF step = "create_branch" THEN Goto("update_file")
  ELSE IF step = "update_file" THEN Goto("create_merge_request")
  ELSE Exit(Code(0))

\* What a command ends with when a client call failed or raised.
Failure(c) == IF c = BATCH THEN Exit(Status("error")) ELSE Exit(Code(1))
Success(c) == IF c = BATCH THEN Exit(Status("success")) ELSE Exit(Code(0))

Mutation(call, outcome) == [call |-> call, outcome |-> outcome]

\* Every tag list, target and since token, for the commands that create tags,
\* without flags and with --tag-only.
InitCommandRange ==
  /\ InitRange
  /\ command \in {RELEASE, BATCH}
  /\ options \in {NoOptions, [NoOptions EXCEPT !.tag_only = TRUE]}

\* Every command with every combination of its flags, against the calls of
\* FetchCalls and the short listings.
InitCommandOptions ==
  /\ \E c \in FetchCalls : tags = c.tags /\ tag_name = c.tag_name /\ since = c.since
  /\ listing \in ShortCommitLists
  /\ command \in {RELEASE, CHANGELOG, BATCH}
  /\ options \in OptionsOf(command)

InitCommand ==
  /\ InitCommandRange \/ InitCommandOptions
  /\ pc = "command"
  /\ tag_exists = FALSE
  /\ since_at = <<>>
  /\ until_at = <<>>
  /\ commits = <<>>
  /\ futures = <<>>
  /\ mrs = <<>>
  /\ ret = <<>>
  /\ calls = <<>>
  /\ items = <<>>
  /\ release_notes = <<>>
  /\ parsed = <<>>
  /\ iids = <<>>
  /\ project_cache = {}
  /\ mutations = <<>>
  /\ cmd_result = <<>>
  /\ projects = <<>>
  /\ results = <<>>
  /\ outputs = <<>>

\* release.py lines 26-39, changelog.py lines 25-34, batch.py lines 140-142
\* and 175-184: the options are validated and the pipeline is called
CommandStart ==
  /\ pc = "command"
  /\ IF OptionsRejected(command, options)
     THEN pc' = "exit" /\ cmd_result' = Code(1)
     ELSE pc' = "list_tags" /\ cmd_result' = cmd_result
  /\ UNCHANGED <<text_vars, batch_vars, call_vars, commits, mrs, project_cache, command,
                 options, mutations>>

\* The pipeline has returned: release.py lines 41-76, changelog.py lines
\* 36-62, batch.py lines 186-218
AfterNotes ==
  /\ pc = "done"
  /\ command # "none"
  /\ LET d == IF command = RELEASE THEN release_after_notes(ret[1], options)
              ELSE IF command = BATCH THEN batch_after_notes(ret[1], options)
              ELSE changelog_after_notes(ret[1], options)
     IN pc' = d.pc /\ cmd_result' = d.result
  /\ UNCHANGED <<text_vars, batch_vars, call_vars, commits, mrs, project_cache, command,
                 options, mutations>>

\* release.py lines 51-63, changelog.py lines 48-59: the markdown is printed
\* or written to the output file, which may fail
WriteMarkdown ==
  /\ pc = "write_markdown"
  /\ pc' = "exit"
  /\ cmd_result' \in {Code(0), Code(1)}
  /\ UNCHANGED <<text_vars, batch_vars, call_vars, commits, mrs, project_cache, command,
                 options, mutations>>

\* release.py lines 76-87, batch.py lines 218-231; the except blocks at
\* release.py 102-105 and batch.py 246-247
CreateTag ==
  /\ pc = "create_tag"
  /\ \E outcome \in {"ok", "failed", "raises"} :
       LET d == IF outcome # "ok" THEN Failure(command)
                ELSE IF command = RELEASE THEN release_after_tag(ret[1], options)
                ELSE batch_after_tag(ret[1], options)
       IN /\ mutations' = Append(mutations, Mutation("create_tag", outcome))
          /\ project_cache' \in ClientCall(project_cache, outcome = "ok")
          /\ pc' = d.pc
          /\ cmd_result' = d.result
  /\ UNCHANGED <<text_vars, batch_vars, call_vars, commits, mrs, command, options>>

\* release.py lines 90-100, batch.py lines 234-244
UpsertRelease ==
  /\ pc = "upsert_release"
  /\ \E outcome \in {"ok", "failed", "raises"} :
       LET d == IF outcome # "ok" THEN Failure(command) ELSE Success(command)
       IN /\ mutations' = Append(mutations, Mutation("upsert_release", outcome))
          /\ project_cache' \in ClientCall(project_cache, outcome = "ok")
          /\ pc' = d.pc
          /\ cmd_result' = d.result
  /\ UNCHANGED <<text_vars, batch_vars, call_vars, commits, mrs, command, options>>

\* changelog.py lines 62-80: the current changelog is read (None stands for
\* no file), then --dry-run ends the command
GetFile ==
  /\ pc = "get_file"
  /\ \E outcome \in {"content", "absent", "raises"} :
       LET d == IF outcome = "raises" THEN Exit(Code(1))
                ELSE IF options.dry_run THEN Exit(Code(0))
                ELSE Goto("create_branch")
       IN /\ project_cache' \in ClientCall(project_cache, outcome = "content")
          /\ pc' = d.pc
          /\ cmd_result' = d.result
  /\ UNCHANGED <<text_vars, batch_vars, call_vars, commits, mrs, command, options,
                 mutations>>

\* changelog.py lines 86-121: create_branch, update_file, create_merge_request
ChangelogMutation ==
  /\ pc \in {"create_branch", "update_file", "create_merge_request"}
  /\ \E outcome \in {"ok", "failed", "raises"} :
       LET d == IF outcome # "ok" THEN Exit(Code(1)) ELSE changelog_after(pc)
       IN /\ mutations' = Append(mutations, Mutation(pc, outcome))
          /\ project_cache' \in ClientCall(project_cache, outcome = "ok")
          /\ pc' = d.pc
          /\ cmd_result' = d.result
  /\ UNCHANGED <<text_vars, batch_vars, call_vars, commits, mrs, command, options>>

NextCommand ==
  \/ CommandStart
  \/ Next
  \/ AfterNotes
  \/ WriteMarkdown
  \/ CreateTag
  \/ UpsertRelease
  \/ GetFile
  \/ ChangelogMutation

SpecCommand == InitCommand /\ [][NextCommand]_vars

\* ------------------------------------------------------ the batch command
\* batch with --markdown-only or --dry-run and without --merge-markdown: the
\* projects of the config file are processed by a pool, the results are
\* collected as they complete, and the markdown of each is written or shown.

\* Most projects in the config file of batch.
MaxProjects == 2

ProjectConfigs ==
  {[project |-> q, tag |-> t] : q \in {"g/a", "g/b"}, t \in {<<"v", 1>>, <<"v", 2>>}}

\* batch.py line 152: the projects of the config file, in file order
ProjectLists == UNION {[1..n -> ProjectConfigs] : n \in 1..MaxProjects}

\* batch.py lines 186-215: what process_project returns for the project config
\* at position i under these flags; config records the position and is not a
\* key of the dict.
ProjectResults(i, cfg, o) ==
  {[project |-> cfg.project, status |-> "error", markdown |-> <<>>, config |-> i],
   [project |-> cfg.project, status |-> "empty", markdown |-> <<>>, config |-> i],
   [project |-> cfg.project,
    status |-> IF o.markdown_only THEN "success" ELSE "dry-run",
    markdown |-> <<"notes", cfg.project, cfg.tag>>, config |-> i]}

\* Equality of two result dicts.
SameResult(a, b) ==
  a.project = b.project /\ a.status = b.status /\ a.markdown = b.markdown

\* list.index: the first position that holds an equal element
Index(list, x) ==
  CHOOSE k \in 1..Len(list) :
    /\ SameResult(list[k], x)
    /\ \A j \in 1..(k - 1) : ~SameResult(list[j], x)

RECURSIVE IndividualOutputs(_, _, _)
\* batch.py lines 275, 297-304 and 310-315: one file or console block per
\* successful result that has a markdown, under the tag looked up at line 300
\* or 312
IndividualOutputs(rs, all, ps) ==
  IF rs = <<>> THEN <<>>
  ELSE LET r == Head(rs)
           out == [project |-> r.project, tag |-> ps[Index(all, r)].tag,
                   markdown |-> r.markdown, config |-> r.config]
       IN (IF r.status \in {"success", "dry-run"} /\ r.markdown # <<>>
           THEN <<out>> ELSE <<>>) \o IndividualOutputs(Tail(rs), all, ps)

InitBatch ==
  /\ command = BATCH
  /\ options \in {o \in OptionsOf(BATCH) :
                    /\ o.markdown_only \/ o.dry_run
                    /\ ~o.merge_markdown
                    /\ ~OptionsRejected(BATCH, o)}
  /\ projects \in ProjectLists
  /\ results = <<>>
  /\ outputs = <<>>
  /\ pc = "batch"
  /\ cmd_result = <<>>
  /\ mutations = <<>>
  /\ project_cache = {}
  /\ tags = <<>>
  /\ tag_name = <<>>
  /\ since = <<>>
  /\ listing = <<>>
  /\ tag_exists = FALSE
  /\ since_at = <<>>
  /\ until_at = <<>>
  /\ commits = <<>>
  /\ futures = <<>>
  /\ mrs = <<>>
  /\ ret = <<>>
  /\ calls = <<>>
  /\ items = <<>>
  /\ release_notes = <<>>
  /\ parsed = <<>>
  /\ iids = <<>>

\* batch.py lines 251-259: as_completed yields the future of a project, in
\* the order the projects complete, and its result is appended
ProjectCompletes(i) ==
  /\ pc = "batch"
  /\ \A k \in 1..Len(results) : results[k].config # i
  /\ \E r \in ProjectResults(i, projects[i], options) : results' = Append(results, r)
  /\ UNCHANGED <<text_vars, call_vars, commits, mrs, project_cache, cmd_vars, pc, projects,
                 outputs>>

\* batch.py lines 275, 293-324: every project has completed
WriteIndividual ==
  /\ pc = "batch"
  /\ Len(results) = Len(projects)
  /\ outputs' = IndividualOutputs(results, results, projects)
  /\ cmd_result' =
       Code(IF \E k \in 1..Len(results) : results[k].status = "error" THEN 1 ELSE 0)
  /\ pc' = "exit"
  /\ UNCHANGED <<text_vars, call_vars, commits, mrs, project_cache, command, options,
                 mutations, projects, results>>

NextBatch ==
  \/ \E i \in 1..Len(projects) : ProjectCompletes(i)
  \/ WriteIndividual

SpecBatch == InitBatch /\ [][NextBatch]_vars

\* ------------------------------------------- listings with creation times
\* One call of get_release_notes_by_tag against commits that carry the
\* created_at list_commits returns: the commit of the tag v1, the commit of the
\* tag v2, and commits created at the same times, in the order of the forge.
TimedCommit(m, t) == [message |-> m, created_at |-> t]

TimedLists ==
  UNION {[1..n -> {TimedCommit(m, Tag(k).commit.created_at) :
                     m \in {MsgPlain, MsgMr11}, k \in {1, 2}}] : n \in 0..MaxCommits}

InitTimed ==
  /\ tags \in {<<Tag(1)>>, <<Tag(2), Tag(1)>>}
  /\ tag_name \in {Tag(1).name, Tag(2).name}
  /\ since \in SinceTokens
  /\ listing \in TimedLists
  /\ pc = "list_tags"
  /\ tag_exists = FALSE
  /\ since_at = <<>>
  /\ until_at = <<>>
  /\ commits = <<>>
  /\ futures = <<>>
  /\ mrs = <<>>
  /\ ret = <<>>
  /\ calls = <<>>
  /\ items = <<>>
  /\ release_notes = <<>>
  /\ parsed = <<>>
  /\ iids = <<>>
  /\ project_cache = {}
  /\ NoCommand

SpecTimed == InitTimed /\ [][Next]_vars

\* ------------------------------------------------ mr_from_commits on its own
\* The call of mr_from_commits at line 227 with listings long enough for the
\* worker cap to bind: the target is the only tag of the project, so that
\* list_tags and list_commits have returned and no commit was dropped.

\* Longest listing handed to mr_from_commits: more commits than pool threads.
MaxPoolCommits == 5

\* Listings of commits that carry the trailer of one merge request, behind a
\* first commit that carries it or not.
PoolLists ==
  {[i \in 1..n |-> IF i = 1 THEN Commit(m) ELSE Commit(MsgMr11)] :
     n \in 1..MaxPoolCommits, m \in {MsgPlain, MsgMr11}}

InitPool ==
  /\ tags = <<Tag(1)>>
  /\ tag_name = Tag(1).name
  /\ since = <<>>
  /\ listing \in PoolLists
  /\ pc = "mr_from_commits"
  /\ tag_exists = TRUE
  /\ since_at = <<>>
  /\ until_at = <<Tag(1).commit.created_at>>
  /\ commits = listing
  /\ futures = <<>>
  /\ mrs = <<>>
  /\ ret = <<>>
  /\ calls = << <<"list_tags", "returns">>,
                <<"list_commits", "returns", <<>>, <<Tag(1).commit.created_at>> >> >>
  /\ items = <<>>
  /\ release_notes = <<>>
  /\ parsed = <<>>
  /\ iids = <<>>
  /\ project_cache = {Project}
  /\ NoCommand

NextPool ==
  \/ MrFromCommitsRaises
  \/ MrFromCommits
  \/ WorkerStart
  \/ \E i \in 1..Len(futures) : WorkerFinish(i)
  \/ \E i \in 1..Len(futures) : Collect(i)
  \/ Return

SpecPool == InitPool /\ [][NextPool]_vars

\* lines 276-293: a step of the pool or of the as_completed loop
FetchStep ==
  \/ WorkerStart
  \/ \E i \in 1..Len(futures) : WorkerFinish(i)
  \/ \E i \in 1..Len(futures) : Collect(i)

\* line 295: the step of Return, by its guard and its change of pc
LoopEnds ==
  /\ pc = "fetch"
  /\ \A i \in 1..Len(futures) : futures[i].yielded
  /\ pc' = "done"

\* Every get_merge_request call ends, an idle pool thread takes a queued
\* task and as_completed yields a finished future (while one of these steps
\* is possible, one is taken), and the loop ends after the last future.
FairPool == SpecPool /\ WF_vars(FetchStep) /\ WF_pc(LoopEnds)

\* A get_merge_request call ends while another one is in progress.
OthersFinish ==
  /\ Cardinality(Running) >= 2
  /\ \E i \in 1..Len(futures) : WorkerFinish(i)

\* An idle pool thread takes a queued task, and of the get_merge_request
\* calls in progress all but one end: one call, whichever, may last for ever.
DelayedPool == SpecPool /\ WF_vars(WorkerStart) /\ WF_vars(OthersFinish)

\* ------------------------------------------------------------ vocabulary
Done == pc = "done"
Returned == ret[1]
CallsOf(name) == {k \in 1..Len(calls) : calls[k][1] = name}
ListTagsReturned == calls # <<>> /\ calls[1] = <<"list_tags", "returns">>
TargetPos == {i \in 1..Len(tags) : tags[i].name = tag_name}
TargetInTags == TargetPos # {}
TargetAt == CHOOSE i \in TargetPos : TRUE
SincePos == {i \in 1..Len(tags) : tags[i].name = since}
AutoDetected == since = <<>>
WithinRange ==
  \A i \in 1..Len(listing) :
    /\ since_at = <<>> \/ listing[i].created_at >= since_at[1]
    /\ until_at = <<>> \/ listing[i].created_at <= until_at[1]
CreatedAt(i) == <<tags[i].commit.created_at>>
\* A merge request the notes must omit: it is labelled release-note-none or its
\* description carries one of the two exclusion markers.
Excluded(mr) ==
  \/ \E i \in 1..Len(mr.labels) : mr.labels[i] = LABEL_RELEASE_NOTE_NONE
  \/ Contains(mr.description, RELEASE_NOTE_NONE_TAG)
  \/ RegexSearch(mr.description, FencedNoneRe)
\* p occurs in s as a contiguous run
HasInfix(s, p) ==
  \E i \in 1..(Len(s) - Len(p) + 1) : SubSeq(s, i, i + Len(p) - 1) = p
Count(list, x) == Cardinality({j \in 1..Len(list) : list[j] = x})
\* the number of places where p occurs in s
Occurrences(s, p) ==
  Cardinality({i \in 1..(Len(s) - Len(p) + 1) : SubSeq(s, i, i + Len(p) - 1) = p})

\* The section headers of a markdown text, in order, and its list lines.
RECURSIVE Headers(_)
Headers(md) ==
  IF md = <<>> THEN <<>>
  ELSE (IF \E k \in 1..Len(SORTED_KINDS) : SORTED_KINDS[k] = Head(md)
        THEN <<Head(md)>> ELSE <<>>) \o Headers(Tail(md))
ListLines(md) == {i \in 1..Len(md) : md[i] = "-" /\ (i = 1 \/ md[i - 1] = NL)}

\* ---- vocabulary of the text claims
\* join_notes has returned / generate_release_notes has returned
Joined == pc \in {"parse_release_notes", "parsed"}
Generated == pc = "generated"
Parsed == pc = "parsed"
Extracted == pc = "extracted"

\* The five categories in the order the sections are to stand in.
SectionOrder ==
  <<"**Bug Fix:**", "_New Features:_", "_Changes:_", "Documentation:", "Other:">>
AllKinds == {SectionOrder[k] : k \in 1..Len(SectionOrder)}

\* The text of an item before its first colon and after it, without surrounding
\* whitespace; an item without a colon has no text before it.
TypePart(item) ==
  IF IndexOf(item, ":") = 0 THEN <<>> ELSE Strip(Slice(item, 1, IndexOf(item, ":") - 1))
Remainder(item) ==
  IF IndexOf(item, ":") = 0 THEN Strip(item)
  ELSE Strip(Slice(item, IndexOf(item, ":") + 1, Len(item)))
\* h has the form type(scope): a non-empty type without space or parenthesis,
\* then the scope between an opening parenthesis and the closing one that ends h.
HasScopeForm(h) ==
  \E q \in 2..(Len(h) - 1) :
    /\ h[q] = "("
    /\ h[Len(h)] = ")"
    /\ \A i \in 1..(q - 1) : h[i] \notin {SP, "("}
TypeOf(item) ==
  LET h == TypePart(item)
  IN IF HasScopeForm(h) THEN Slice(h, 1, IndexOf(h, "(") - 1) ELSE h
ScopeOf(item) ==
  LET h == TypePart(item)
  IN IF HasScopeForm(h) THEN Slice(h, IndexOf(h, "(") + 1, Len(h) - 1) ELSE <<>>
\* The category of a type.
CategoryFor(type) ==
  IF type = <<"f", "e", "a", "t">> THEN "_New Features:_"
  ELSE IF type = <<"f", "i", "x">> THEN "**Bug Fix:**"
  ELSE IF type = <<"r", "e", "f", "a", "c", "t", "o", "r">> THEN "_Changes:_"
  ELSE IF type = <<"d", "o", "c", "s">> THEN "Documentation:"
  ELSE "Other:"
\* The summary of an item read as type(scope): summary.
ScopedSummary(item) ==
  IF ScopeOf(item) \notin {<<>>, <<"*">>}
  THEN ScopeOf(item) \o <<":", SP>> \o Remainder(item)
  ELSE Remainder(item)
\* The text before the first colon is prose: it holds a space, inside a scope
\* or not / outside of any scope.
ProseBeforeColon(item) == Contains(TypePart(item), SP)
ProseType(item) == Contains(TypeOf(item), SP)
\* The summary of an item.
SummaryOf(item) == IF ProseType(item) THEN item ELSE ScopedSummary(item)
\* The items of a category, in input order.
ItemsIn(list, kind) == SelectSeq(list, LAMBDA it : CategoryFor(TypeOf(it)) = kind)

\* The lines of a markdown text; the list lines that stand under the header
\* kind, in order.
NoteLines(md) == Split(md, NL)
IsHeaderLine(line) == Len(line) = 1 /\ line[1] \in AllKinds
IsListLine(line) == line # <<>> /\ line[1] = "-"
HeaderAbove(lines, i) ==
  LET hs == {j \in 1..i : IsHeaderLine(lines[j])}
  IN IF hs = {} THEN <<>> ELSE lines[CHOOSE j \in hs : \A k \in hs : k <= j]
LinesUnder(md, kind) ==
  LET lines == NoteLines(md)
      at == SelectSeq([i \in 1..Len(lines) |-> i],
                      LAMBDA i : IsListLine(lines[i]) /\ HeaderAbove(lines, i) = <<kind>>)
  IN [j \in 1..Len(at) |-> lines[at[j]]]
\* A list line carries a summary: the summary follows the list marker.
Carries(line, summary) ==
  \/ line = <<"-", SP>> \o summary
  \/ line = <<"-", SP, "-", SP>> \o summary

RECURSIVE Flatten(_)
Flatten(seqs) == IF seqs = <<>> THEN <<>> ELSE Head(seqs) \o Flatten(Tail(seqs))

\* msg, up to position e, ends with a blank line followed by See merge request,
\* a text on that line, an exclamation mark and digits; the number they denote.
EndsWithTrailer(msg, e) ==
  \E i \in 1..e, b \in 1..e :
    /\ i + 3 < b
    /\ b < e
    /\ msg[i] = NL /\ msg[i + 1] = NL /\ msg[i + 2] = "See merge request "
    /\ \A j \in (i + 3)..(b - 1) : msg[j] # NL
    /\ msg[b] = "!"
    /\ \A j \in (b + 1)..e : IsDigit(msg[j])
TrailerNumber(msg, e) ==
  LET bangs == {b \in 1..(e - 1) : msg[b] = "!"}
      b == CHOOSE b \in bangs : \A c \in bangs : c <= b
  IN ParseInt(Slice(msg, b + 1, e))
\* The end of a message, one final newline not counted.
LastLineEnd(msg) ==
  IF msg # <<>> /\ msg[Len(msg)] = NL THEN Len(msg) - 1 ELSE Len(msg)

\* ---------------------------------------------------------------- claims

\* C1: with tags [v1.1, v1.0] (here v2, v1), target v1.1, no since token and a
\* listing of the three commits for MR 10 (feat, labelled release-note-none),
\* MR 11 (fix) and no MR, in any order, and every call succeeding, the call
\* returns no error and a markdown whose only section is Bug Fix, with one list
\* line, which carries MR 11's summary; MR 10 does not appear.
C1_EndToEnd ==
  ( /\ Done
    /\ tags = <<Tag(2), Tag(1)>>
    /\ tag_name = Tag(2).name
    /\ since = <<>>
    /\ Len(listing) = 3
    /\ {listing[i].message : i \in 1..Len(listing)} = {MsgPlain, MsgMr10, MsgMr11}
    /\ \A k \in 1..Len(calls) : calls[k][2] # "raises"
    /\ \A i \in 1..Len(futures) : futures[i].outcome = "mr" )
  => /\ Returned.error = NoError
     /\ Headers(Returned.release_notes) = <<TITLE_BUG_FIX>>
     /\ Cardinality(ListLines(Returned.release_notes)) = 1
     /\ HasInfix(Returned.release_notes, Classify(TitleLine(Mr11)).summary)
     /\ ~HasInfix(Returned.release_notes, Classify(TitleLine(Mr10)).summary)

\* C2: without a since token, when the target tag stands at a position i that
\* is not the last, commits are listed with until_at the creation time of
\* tags[i] and since_at the creation time of tags[i+1].
C2_AutoRange ==
  \A k \in CallsOf("list_commits") :
    (AutoDetected /\ TargetInTags /\ TargetAt < Len(tags))
    => /\ calls[k][3] = CreatedAt(TargetAt + 1)
       /\ calls[k][4] = CreatedAt(TargetAt)

\* C3: whenever the call returns without an error, the returned tag_exists is
\* true exactly when some tag of the list has the target name.
C3_TagExists ==
  (Done /\ Returned.error = NoError) => (Returned.tag_exists <=> TargetInTags)

\* C4: without a since token and with the target tag in the last position,
\* commits are listed with no since_at and with until_at the target's creation
\* time, and no commit is dropped from the listing.
C4_OldestTag ==
  \A k \in CallsOf("list_commits") :
    (AutoDetected /\ TargetInTags /\ TargetAt = Len(tags))
    => /\ calls[k][3] = <<>>
       /\ calls[k][4] = CreatedAt(TargetAt)
       /\ (calls[k][2] = "returns" /\ listing # <<>>) => commits = listing

\* C5: with a since token that resolves, since_at is the creation time of the
\* tag named like the token if there is one and otherwise that of the commit
\* get_commit returns, get_commit being called only when no tag is named like
\* the token; until_at is the target's creation time if the target is a tag and
\* absent otherwise; auto-detection overwrites neither, nor tag_exists.
C5_SinceResolved ==
  since # <<>> =>
    /\ SincePos # {} => CallsOf("get_commit") = {}
    /\ \A k \in CallsOf("list_commits") :
         (SincePos # {} \/ \E g \in CallsOf("get_commit") : calls[g][2] = "commit")
         => /\ calls[k][3] = IF SincePos # {}
                             THEN CreatedAt(CHOOSE i \in SincePos : TRUE)
                             ELSE <<CommitCreatedAt>>
            /\ calls[k][4] = IF TargetInTags THEN CreatedAt(TargetAt) ELSE <<>>
            /\ tag_exists = TargetInTags

\* C5 witness: the token named no tag, get_commit returned a commit, the target
\* is a tag behind another tag, and the commits were listed.
C5_Witness ==
  /\ since = SinceSha
  /\ \E g \in CallsOf("get_commit") : calls[g][2] = "commit"
  /\ TargetInTags /\ TargetAt > 1
  /\ CallsOf("list_commits") # {}

\* C6: with a since token that names no tag and for which get_commit returns
\* None or raises, tag_exists, since_at and until_at are those of the same call
\* without a since token.
C6_SinceUnresolved ==
  \A k \in CallsOf("list_commits") :
    (\E g \in CallsOf("get_commit") : calls[g][2] \in {"absent", "raises"})
    => LET auto == AutoDetect(tags, tag_name, 1, NoRange)
       IN /\ tag_exists = auto.tag_exists
          /\ calls[k][3] = auto.since_at
          /\ calls[k][4] = auto.until_at

\* C7: when list_tags returns an empty list the call returns False, an empty
\* markdown and the no-tags error after no other call; with a non-empty list
\* nothing is returned before the commits are listed.
C7_NoTags ==
  /\ (ListTagsReturned /\ tags = <<>>)
     => /\ Done
        /\ ret = Result(FALSE, <<>>, NoTagsError)
        /\ Len(calls) = 1
  /\ (ListTagsReturned /\ tags # <<>> /\ CallsOf("list_commits") = {}) => ret = <<>>
  /\ (Done /\ Returned.error = NoTagsError) => tags = <<>>

C7_Witness == Done /\ ListTagsReturned /\ tags = <<>>

\* C8: when the listing is empty, or no commit handed to mr_from_commits yields
\* a merge request, or every fetched merge request is excluded, the call returns
\* the tag_exists of range resolution, an empty markdown and no error; with an
\* empty listing no merge request is fetched.
C8_EmptyButValid ==
  /\ ( /\ Done
       /\ \E k \in CallsOf("list_commits") : calls[k][2] = "returns"
       /\ \/ listing = <<>>
          \/ MrIids(commits) = <<>>
          \/ /\ futures # <<>>
             /\ \A i \in 1..Len(futures) :
                  futures[i].outcome = "mr" => Excluded(MrDb[futures[i].iid]) )
     => ret = Result(tag_exists, <<>>, NoError)
  /\ listing = <<>> => (CallsOf("get_merge_request") = {} /\ futures = <<>>)

\* C8 witness: merge requests were fetched and all of them are excluded.
C8_Witness ==
  /\ Done
  /\ tag_exists
  /\ \E i \in 1..Len(futures) : futures[i].outcome = "mr"
  /\ \A i \in 1..Len(futures) :
       futures[i].outcome = "mr" => Excluded(MrDb[futures[i].iid])

\* C9: when list_tags, list_commits or the merge-request step raises, the call
\* returns False, an empty markdown and that exception.
C9_Caught ==
  \A k \in 1..Len(calls) :
    (calls[k][1] \in {"list_tags", "list_commits", "mr_from_commits"}
       /\ calls[k][2] = "raises")
    => Done /\ ret = Result(FALSE, <<>>, RaisedBy(calls[k][1]))

\* C9 witness: list_commits raised after the target tag was found.
C9_Witness ==
  /\ Done
  /\ tag_exists
  /\ \E k \in CallsOf("list_commits") : calls[k][2] = "raises"

\* C10: mr_from_commits returns exactly the merge requests of the fetches that
\* succeeded, once per such fetch; every submitted fetch completes whatever the
\* others did, and no failed fetch makes the call fail.
C10_FailureIsolation ==
  /\ \A m \in {MrDb[i] : i \in DOMAIN MrDb} :
       Count(mrs, m) =
         Cardinality({i \in 1..Len(futures) :
                        /\ futures[i].yielded
                        /\ futures[i].outcome = "mr"
                        /\ MrDb[futures[i].iid] = m})
  /\ (Done /\ futures # <<>>)
     => /\ \A i \in 1..Len(futures) : futures[i].state = "done" /\ futures[i].yielded
        /\ Returned.error = NoError
        /\ Returned.release_notes = generate_release_notes(mrs)

\* C10 witness: of three fetches one succeeded, one returned None, one raised.
C10_Witness ==
  /\ Done
  /\ Len(futures) >= 3
  /\ \A o \in {"mr", "absent", "raises"} : \E i \in 1..Len(futures) : futures[i].outcome = o
  /\ Len(mrs) = 1

\* C11: when k commits handed to mr_from_commits carry a trailer with the same
\* iid, get_merge_request is called k times for that iid, the collected list
\* holds that merge request once per call that succeeded, and (unless the merge
\* request is excluded) its summary stands that many times in the returned
\* markdown.
C11_NoDeduplication ==
  (Done /\ futures # <<>>)
  => \A iid \in DOMAIN MrDb :
       LET k == Cardinality({j \in 1..Len(commits) :
                               mr_num_for_commit_from_message(commits[j].message) = iid})
           succeeded == Cardinality({i \in 1..Len(futures) :
                                       futures[i].iid = iid /\ futures[i].outcome = "mr"})
       IN /\ Cardinality({c \in CallsOf("get_merge_request") : calls[c][3] = iid}) = k
          /\ Count(mrs, MrDb[iid]) = succeeded
          /\ ~Excluded(MrDb[iid])
             => Occurrences(Returned.release_notes,
                            Classify(TitleLine(MrDb[iid])).summary) = succeeded

\* C11 witness: three commits name MR 11; two of the three fetches succeeded and
\* the markdown carries MR 11's summary twice.
C11_Witness ==
  /\ Done
  /\ Len(futures) = 3
  /\ \A i \in 1..Len(futures) : futures[i].iid = 11
  /\ Cardinality({i \in 1..Len(futures) : futures[i].outcome = "mr"}) = 2
  /\ Occurrences(Returned.release_notes, Classify(TitleLine(Mr11)).summary) = 2

\* C12: whatever order the fetches complete in, the returned markdown is the
\* same text.  The run in which the fetches complete and are collected in
\* submission order is always possible, so the markdown of every run in which
\* all fetches succeeded equals the rendering of the merge requests in
\* submission order.
C12_Deterministic ==
  (Done /\ futures # <<>> /\ \A i \in 1..Len(futures) : futures[i].outcome = "mr")
  => Returned.release_notes
       = generate_release_notes([i \in 1..Len(futures) |-> MrDb[futures[i].iid]])

C14_Classification ==
  Joined
  => /\ Cardinality(ListLines(release_notes)) = Len(items)
     /\ \A kind \in AllKinds :
          Len(LinesUnder(release_notes, kind)) = Len(ItemsIn(items, kind))

\* C14 witness: an item without a colon and an item with an empty type were
\* joined into one section of two lines.
C14_Witness ==
  /\ Joined
  /\ items = <<ItemNoColon, ItemEmptyType>>
  /\ Headers(release_notes) = <<"Other:">>
  /\ Len(LinesUnder(release_notes, "Other:")) = 2

C16_ProseGuard ==
  Joined
  => \A kind \in AllKinds :
       LET its == SelectSeq(items,
                    LAMBDA it : (IF ProseBeforeColon(it) THEN "Other:"
                                 ELSE CategoryFor(TypeOf(it))) = kind)
           lines == LinesUnder(release_notes, kind)
       IN /\ Len(lines) = Len(its)
          /\ \A j \in 1..Len(its) :
               ProseBeforeColon(its[j]) => Carries(lines[j], its[j])

\* C16 amended: an item whose type (the text before the first colon, without
\* the parenthesized scope when that text has the form type(scope)) holds a
\* space stands under Other and its line carries the whole item; a space inside
\* the scope of a type(scope) item does not count.
C16_ProseGuardOutsideScope ==
  Joined
  => \A kind \in AllKinds :
       LET its == ItemsIn(items, kind)
           lines == LinesUnder(release_notes, kind)
       IN /\ Len(lines) = Len(its)
          /\ \A j \in 1..Len(its) :
               ProseType(its[j]) => kind = "Other:" /\ Carries(lines[j], its[j])

\* C16 witness: an item whose spaced type is followed by a scope and an item
\* with a space inside its scope were joined; the first stands under Other with
\* the whole item, the second under New Features.
C16_Witness ==
  /\ Joined
  /\ items = <<ItemProseScope, ItemSpaceInScope>>
  /\ Len(LinesUnder(release_notes, "Other:")) = 1
  /\ Carries(LinesUnder(release_notes, "Other:")[1], ItemProseScope)
  /\ Len(LinesUnder(release_notes, "_New Features:_")) = 1

\* C17: the headers of the markdown are those of the categories that have an
\* item, in the order Bug Fix, New Features, Changes, Documentation, Other,
\* whatever the order of the items; the lines under a header carry the
\* summaries of the items of that category in input order.
C17_SectionOrder ==
  Joined
  => /\ Headers(release_notes)
          = SelectSeq(SectionOrder, LAMBDA kind : ItemsIn(items, kind) # <<>>)
     /\ \A kind \in AllKinds :
          LET its == ItemsIn(items, kind)
              lines == LinesUnder(release_notes, kind)
          IN /\ Len(lines) = Len(its)
             /\ \A j \in 1..Len(its) : Carries(lines[j], SummaryOf(its[j]))

\* C17 witness: an Other item and then a Bug Fix item were joined: the Bug Fix
\* section comes first.
C17_Witness ==
  /\ Joined
  /\ items = <<ItemChore, ItemFix>>
  /\ Headers(release_notes) = <<"**Bug Fix:**", "Other:">>

\* C18: the markdown is, for each category that has an item, the header line
\* followed by one line per summary, each a dash, a space and the summary, the
\* sections separated by one empty line.
C18_SectionFormat ==
  Joined
  => LET kinds == SelectSeq(SectionOrder, LAMBDA kind : ItemsIn(items, kind) # <<>>)
         section(kind) ==
           <<kind, NL>>
             \o Flatten([j \in 1..Len(ItemsIn(items, kind)) |->
                           <<"-", SP>> \o SummaryOf(ItemsIn(items, kind)[j]) \o <<NL>>])
     IN release_notes = JoinWith(<<NL>>, [k \in 1..Len(kinds) |-> section(kinds[k])])

\* C19: parse_release_notes applied to the output of join_notes returns, for
\* each category, the summaries join_notes placed in it, in order, each behind
\* the project name between double asterisks, a colon and a space.
C19_RoundTrip ==
  Parsed
  => \A k \in 1..Len(SectionOrder) :
       LET placed == SummariesOf(items, SectionOrder[k])
       IN parsed[categories[k].category_key]
            = [j \in 1..Len(placed) |->
                 <<"**">> \o ProjectName \o <<"**", ":", SP>> \o placed[j]]

\* C20 as stated: a commit contributes the number of its trailer when its
\* message ends with a blank line, See merge request, a text, an exclamation
\* mark and digits, and contributes nothing otherwise.
C20_TrailerExtraction ==
  Extracted
  => iids = Flatten([j \in 1..Len(commits) |->
                       IF EndsWithTrailer(commits[j].message, Len(commits[j].message))
                       THEN <<TrailerNumber(commits[j].message, Len(commits[j].message))>>
                       ELSE <<>>])

\* C20 amended: a commit contributes the number of its trailer when the last
\* line of its message, which one final newline may follow, is See merge
\* request, a text, an exclamation mark and digits that denote a number above
\* zero, and the line before it is empty; it contributes nothing otherwise.
C20_TrailerOnLastLine ==
  Extracted
  => iids = Flatten([j \in 1..Len(commits) |->
                       LET msg == commits[j].message
                       IN IF /\ EndsWithTrailer(msg, LastLineEnd(msg))
                             /\ TrailerNumber(msg, LastLineEnd(msg)) > 0
                          THEN <<TrailerNumber(msg, LastLineEnd(msg))>>
                          ELSE <<>>])

\* C20 witness: a message whose trailer is followed by one newline and a
\* message whose trailer has no digits were scanned; only the first contributes.
C20_Witness ==
  /\ Extracted
  /\ commits = <<Commit(MsgTrailerNewline), Commit(MsgNoDigits)>>
  /\ iids = <<42>>

\* C21: whichever fetch is delayed for ever, every other submitted fetch is
\* started and completed, successfully or not: at most one fetch stays
\* unfinished, and no fetch waits for the result of another one.
C21_NoCrossFetchStalling ==
  (pc = "fetch")
    ~> (Cardinality({i \in 1..Len(futures) : futures[i].state # "done"}) <= 1)

\* The first fetch is still running after a fetch submitted later has ended,
\* and after one submitted later has failed.
C21_Witness ==
  /\ pc = "fetch"
  /\ Len(futures) = MaxPoolCommits
  /\ futures[1].state = "running"
  /\ futures[2].state = "done" /\ futures[2].outcome = "raises"
  /\ futures[Len(futures)].state = "done" /\ futures[Len(futures)].outcome = "mr"

\* C22: mr_from_commits returns only after every submitted fetch has ended and
\* was collected, with one merge request per successful fetch in its result,
\* and it does return once every fetch has ended.
C22_JoinBeforeReturn ==
  /\ [](pc = "done" /\ futures # <<>> =>
          /\ \A i \in 1..Len(futures) :
               futures[i].state = "done" /\ futures[i].outcome # "none"
          /\ Len(mrs) = Cardinality({i \in 1..Len(futures) : futures[i].outcome = "mr"})
          /\ \A i \in 1..Len(futures) :
               futures[i].outcome = "mr" => \E k \in 1..Len(mrs) : mrs[k] = MrDb[futures[i].iid]
          /\ ret = Result(tag_exists, generate_release_notes(mrs), NoError))
  /\ (pc = "fetch") ~> (pc = "done")

\* mr_from_commits has returned after as many fetches as the cap allows at
\* once and one more, of which some succeeded, one returned None and one raised.
C22_Witness ==
  /\ pc = "done"
  /\ Len(futures) = MaxPoolCommits
  /\ futures[1].outcome = "absent"
  /\ futures[2].outcome = "raises"
  /\ Len(mrs) = MaxPoolCommits - 2

\* C23: when list_commits returned commits of the range it was asked for and
\* since_at was resolved, exactly the first listed commit is left out of the
\* merge-request resolution and it is the boundary commit, the one created at
\* since_at; when since_at is absent no commit is left out; and a listing of a
\* single commit with since_at resolved gives empty notes and no error.
C23_BoundaryCommit ==
  /\ (pc = "mr_from_commits" /\ WithinRange) =>
       IF since_at # <<>>
       THEN commits = Tail(listing) /\ Head(listing).created_at = since_at[1]
       ELSE commits = listing
  /\ (Done /\ Len(listing) = 1 /\ since_at # <<>>
        /\ \A k \in 1..Len(calls) : calls[k][2] # "raises") =>
       Returned.release_notes = <<>> /\ Returned.error = NoError

\* C24: at every moment of mr_from_commits the number of get_merge_request
\* calls in progress is at most the smaller of the worker cap and the number
\* of candidate iids, counted with duplicates; without a candidate iid no
\* future is submitted and no fetch is started.
C24_BoundedPool ==
  /\ Cardinality(Running) <= Min(DEFAULT_WORKER_COUNT, Len(MrIids(commits)))
  /\ MrIids(commits) = <<>> =>
       futures = <<>> /\ CallsOf("get_merge_request") = {}

\* The cap binds: as many fetches as the cap allows are in progress, all for
\* the same iid, while a further one is queued.
C24_Witness ==
  /\ pc = "fetch"
  /\ Cardinality(Running) = DEFAULT_WORKER_COUNT
  /\ Pending # {}
  /\ \A i \in 1..Len(futures) : futures[i].iid = futures[1].iid

\* C25: while the pool is active the cache of the client already holds the
\* project, put there by list_tags, so that no step of a worker (a fetch that
\* starts or ends) changes the cache; no step of a worker changes the result
\* list either, which grows only when the collecting loop takes a finished
\* future.
C25_NoConcurrentWrites ==
  [][ /\ pc = "fetch" => Project \in project_cache
      /\ (\E i \in 1..Len(futures) : futures'[i].state # futures[i].state) =>
           project_cache' = project_cache /\ mrs' = mrs
      /\ mrs' # mrs =>
           \E i \in 1..Len(futures) : ~futures[i].yielded /\ futures'[i].yielded
    ]_vars

\* A fetch has succeeded and was collected while another is in progress, the
\* cache holding the project since before the first worker ran.
C25_Witness ==
  /\ pc = "fetch"
  /\ Running # {}
  /\ mrs # <<>>
  /\ project_cache = {Project}
  /\ calls[1] = <<"list_tags", "returns">>

\* C26: release and the process_project of batch call create_tag only when no
\* tag of the forge's list has the target name, for every tag list, every
\* position of the target and every since token.
C26_NoTagCreatedTwice ==
  (command \in {RELEASE, BATCH} /\ TargetInTags) =>
    \A k \in 1..Len(mutations) : mutations[k].call # "create_tag"

\* C27: with --dry-run or --markdown-only set, release, changelog and batch
\* make no mutating call, whatever the pipeline returned.
C27_ReadOnlyModes ==
  (command # "none" /\ (options.dry_run \/ options.markdown_only)) => mutations = <<>>

\* A changelog run under --dry-run has ended after the pipeline returned notes
\* and the changelog file was read.
C27_Witness ==
  /\ command = CHANGELOG
  /\ options.dry_run /\ ~options.markdown_only
  /\ pc = "exit"
  /\ ret # <<>> /\ Returned.error = NoError /\ Strip(Returned.release_notes) # <<>>
  /\ cmd_result = Code(0)

\* C28: release calls upsert_release at most once, and only when the pipeline
\* returned no error and notes that are not empty, --tag-only is off and the
\* tag was found by the pipeline or created earlier in the run; a create_tag
\* that failed is the last mutation; with empty notes and --tag-only off no
\* mutation is made.
C28_ReleasePublishOrder ==
  command = RELEASE =>
    LET upserts == {k \in 1..Len(mutations) : mutations[k].call = "upsert_release"}
        created == {k \in 1..Len(mutations) : mutations[k].call = "create_tag"}
    IN /\ Cardinality(upserts) <= 1
       /\ \A k \in upserts :
            /\ Returned.error = NoError
            /\ Strip(Returned.release_notes) # <<>>
            /\ ~options.tag_only
            /\ \/ Returned.tag_exists /\ TargetInTags /\ created = {}
               \/ \E j \in created : j < k /\ mutations[j].outcome = "ok"
       /\ \A j \in created : mutations[j].outcome # "ok" => j = Len(mutations)
       /\ (mutations # <<>> /\ Strip(Returned.release_notes) = <<>>) => options.tag_only

\* A release has created the tag and then published the notes.
C28_Witness ==
  /\ command = RELEASE
  /\ pc = "exit"
  /\ mutations = <<Mutation("create_tag", "ok"), Mutation("upsert_release", "ok")>>
  /\ cmd_result = Code(0)

\* C29: the mutations of changelog are, in this order, create_branch,
\* update_file and create_merge_request; each one follows a predecessor that
\* succeeded, a failure is the last mutation of the run and ends it with return
\* code 1, and nothing else is called on the forge to undo what was done.
C29_ChangelogPublishOrder ==
  command = CHANGELOG =>
    LET order == <<"create_branch", "update_file", "create_merge_request">>
    IN /\ Len(mutations) <= Len(order)
       /\ \A k \in 1..Len(mutations) :
            /\ mutations[k].call = order[k]
            /\ k < Len(mutations) => mutations[k].outcome = "ok"
       /\ (mutations # <<>> /\ mutations[Len(mutations)].outcome # "ok") =>
            pc = "exit" /\ cmd_result = Code(1)
       /\ (pc = "exit" /\ cmd_result = Code(0) /\ ~options.dry_run /\ ~options.markdown_only
             /\ Strip(Returned.release_notes) # <<>>) =>
            Len(mutations) = Len(order)

\* The branch was made and the file update failed: the run has ended with
\* return code 1 and the branch is left on the forge.
C29_Witness ==
  /\ command = CHANGELOG
  /\ pc = "exit"
  /\ mutations = <<Mutation("create_branch", "ok"), Mutation("update_file", "failed")>>
  /\ cmd_result = Code(1)

\* C30: in batch mode with --markdown-only or --dry-run and no merge, the
\* markdown of every project is written or shown under the tag configured for
\* that project, for every order of completion and also when some projects end
\* as error or empty.
C30_BatchTagAssociation ==
  pc = "exit" =>
    \A k \in 1..Len(outputs) :
      /\ outputs[k].tag = projects[outputs[k].config].tag
      /\ outputs[k].project = projects[outputs[k].config].project

====
